---------------------------- MODULE Spec2Model ----------------------------
(***************************************************************************)
(* A model of plato-opds (src/src/main.rs, opds.rs, plato.rs): one run of  *)
(* `main`, which syncs a save directory against the OPDS catalogs of the   *)
(* configured servers.                                                      *)
(*                                                                         *)
(* Strings whose structure the code inspects are sequences of tokens:      *)
(*   an entry id      <<"urn:uuid:", "a">>                                 *)
(*   a MIME type      <<"application", "/", "pdf">>                        *)
(*   a path           a sequence of components, each a token sequence      *)
(* An Option<T> is a set: {} is None and {x} is Some(x).                    *)
(***************************************************************************)
EXTENDS Naturals, Sequences, FiniteSets, TLC

(***************************************************************************)
(* Bounds of the model.                                                    *)
(***************************************************************************)
\* Runs of the program in a row over the same save directory (SpecTwice).
MaxRuns == 2
\* Pagination requests one crawl may issue before the model stops following it.
MaxPageFetches == 3

None == {}
Some(x) == {x}
Unwrap(o) == CHOOSE x \in o : TRUE

Last(s) == s[Len(s)]

(***************************************************************************)
(* Link classification.                                                    *)
(***************************************************************************)
EPUB == <<"application", "/", "epub+zip">>
CBZ == <<"application", "/", "x-cbz">>
PDF == <<"application", "/", "pdf">>
MOBI == <<"application", "/", "x-mobipocket-ebook">>

\* A faulty FileTypeFromStr: the string of an unknown type is dropped.
FileTypeFromStrLossy(s) ==
  CASE s = EPUB -> [tag |-> "Epub", raw |-> <<>>]
    [] s = CBZ -> [tag |-> "Cbz", raw |-> <<>>]
    [] s = PDF -> [tag |-> "Pdf", raw |-> <<>>]
    [] OTHER -> [tag |-> "Other", raw |-> <<>>]

\* FileType::from_str: total, unknown strings are kept under Other.
FileTypeFromStr(s) ==
  CASE s = EPUB -> [tag |-> "Epub", raw |-> <<>>]
    [] s = CBZ -> [tag |-> "Cbz", raw |-> <<>>]
    [] s = PDF -> [tag |-> "Pdf", raw |-> <<>>]
    [] OTHER -> [tag |-> "Other", raw |-> s]

\* impl From<&FileType> for FileExtension.
FileExtensionFrom(ft) ==
  CASE ft.tag = "Epub" -> [tag |-> "Epub", raw |-> <<>>]
    [] ft.tag = "Cbz" -> [tag |-> "Cbz", raw |-> <<>>]
    [] ft.tag = "Pdf" -> [tag |-> "Pdf", raw |-> <<>>]
    [] OTHER -> [tag |-> "Other", raw |-> ft.raw]

\* impl Display for FileExtension.
FileExtensionToString(fe) ==
  CASE fe.tag = "Epub" -> <<"epub">>
    [] fe.tag = "Cbz" -> <<"cbz">>
    [] fe.tag = "Pdf" -> <<"pdf">>
    [] OTHER -> fe.raw

RelAcquisition == "http://opds-spec.org/acquisition"
RelImage == "http://opds-spec.org/image"
RelThumbnail == "http://opds-spec.org/image/thumbnail"
RelSample == "http://opds-spec.org/acquisition/sample"
RelPreview == "http://opds-spec.org/acquisition/preview"
RelOpenAccess == "http://opds-spec.org/acquisition/open-access"
RelBorrow == "http://opds-spec.org/acquisition/borrow"
RelBuy == "http://opds-spec.org/acquisition/buy"
RelSubscribe == "http://opds-spec.org/acquisition/subscribe"
RelNext == "next"
RelSelf == "self"

\* LinkType::from_str: total, unknown strings are kept under Other.
LinkTypeFromStr(s) ==
  CASE s = RelAcquisition -> [tag |-> "Acquisition", raw |-> ""]
    [] s = RelImage -> [tag |-> "Cover", raw |-> ""]
    [] s = RelThumbnail -> [tag |-> "Thumbnail", raw |-> ""]
    [] s = RelSample -> [tag |-> "Sample", raw |-> ""]
    [] s = RelPreview -> [tag |-> "Sample", raw |-> ""]
    [] s = RelOpenAccess -> [tag |-> "OpenAccess", raw |-> ""]
    [] s = RelBorrow -> [tag |-> "Borrow", raw |-> ""]
    [] s = RelBuy -> [tag |-> "Buy", raw |-> ""]
    [] s = RelSubscribe -> [tag |-> "Subscribe", raw |-> ""]
    [] s = RelNext -> [tag |-> "Next", raw |-> ""]
    [] OTHER -> [tag |-> "Other", raw |-> s]

LinkTypeAcquisition == [tag |-> "Acquisition", raw |-> ""]
LinkTypeNext == [tag |-> "Next", raw |-> ""]

(***************************************************************************)
(* The feed model (opds.rs) and its deserialisation.                       *)
(***************************************************************************)
\* A link as it stands in the XML: every attribute may be absent.
RawLink(rel, href, type) == [rel |-> rel, href |-> href, file_type |-> type]

\* Deserialize for Link: the rel attribute goes through LinkType::from_str.
ParseLink(l) ==
  [rel |-> IF l.rel = None THEN None ELSE Some(LinkTypeFromStr(Unwrap(l.rel))),
   href |-> l.href,
   file_type |-> l.file_type]

ParseLinks(ls) == [i \in 1..Len(ls) |-> ParseLink(ls[i])]

\* Deserialize for Entry: links is an Option<Vec<Link>>.
ParseEntry(e) ==
  [title |-> e.title,
   id |-> e.id,
   links |-> IF e.links = None THEN None ELSE Some(ParseLinks(Unwrap(e.links)))]

\* quick_xml::de::from_str::<Feed> on a well-formed document.
ParseFeed(doc) ==
  [entries |-> [i \in 1..Len(doc.entries) |-> ParseEntry(doc.entries[i])],
   links |-> ParseLinks(doc.links)]


(***************************************************************************)
(* URLs (the url crate). A URL string is a token sequence such as          *)
(* <<"http", "://", "lib2", ":", "8080", "/", "opds">>.                     *)
(***************************************************************************)
SubSeqFrom(s, i) == IF i > Len(s) THEN <<>> ELSE SubSeq(s, i, Len(s))

\* Url::parse: Some(url) for an absolute URL, None for anything else (a
\* relative reference without a base is an error).
UrlParse(s) ==
  IF Len(s) >= 3 /\ s[2] = "://"
  THEN IF Len(s) >= 5 /\ s[4] = ":"
       THEN Some([scheme |-> s[1], host |-> s[3], port |-> Some(s[5]),
                  path |-> SubSeqFrom(s, 6)])
       ELSE Some([scheme |-> s[1], host |-> s[3], port |-> None,
                  path |-> SubSeqFrom(s, 4)])
  ELSE None

\* Url::set_path.
UrlSetPath(url, path) == [url EXCEPT !.path = path]

\* The URL of the next page (main.rs 301-311): a href starting with '/' is
\* glued to the scheme and host_str() of the instance URL (host_str() has no
\* port), anything else is parsed as it stands. None when Url::parse fails.
PaginatedUrlRelative(instance_url, url_string) ==
  LET url == Unwrap(UrlParse(instance_url))
      new_url == <<url.scheme, "://", url.host>> \o url_string
  IN UrlParse(new_url)

PaginatedUrl(instance_url, url_string) ==
  IF Len(url_string) > 0 /\ Head(url_string) = "/"
  THEN PaginatedUrlRelative(instance_url, url_string)
  ELSE UrlParse(url_string)

(***************************************************************************)
(* Paths and the file system. A path is a sequence of components; the      *)
(* file system is the set of directories and the files with their content. *)
(***************************************************************************)
RECURSIVE SplitSlash(_)
\* The components of a relative path string: the runs of tokens between "/".
SplitSlash(s) ==
  IF s = <<>> THEN <<>>
  ELSE LET cut == IF \E i \in 1..Len(s) : s[i] = "/"
                  THEN CHOOSE i \in 1..Len(s) :
                         s[i] = "/" /\ \A j \in 1..(i - 1) : s[j] # "/"
                  ELSE Len(s) + 1
           head == SubSeq(s, 1, cut - 1)
           rest == SplitSlash(SubSeqFrom(s, cut + 1))
       IN IF head = <<>> THEN rest ELSE <<head>> \o rest

\* Path::join with a relative path string.
PathJoin(p, s) == p \o SplitSlash(s)

Parent(p) == SubSeq(p, 1, Len(p) - 1)

IsPrefix(p, q) == Len(p) <= Len(q) /\ SubSeq(q, 1, Len(p)) = p

\* Path::strip_prefix.
StripPathPrefix(p, base) ==
  IF IsPrefix(base, p) THEN Some(SubSeqFrom(p, Len(base) + 1)) ELSE None

Ancestors(p) == {SubSeq(p, 1, n) : n \in 0..Len(p)}

\* Path::exists.
PathExists(f, p) == p \in f.dirs \/ p \in DOMAIN f.files

\* fs::create_dir: fails when the parent is missing or the path exists.
CanCreateDir(f, p) == Parent(p) \in f.dirs /\ ~PathExists(f, p)
CreateDir(f, p) == [f EXCEPT !.dirs = @ \cup {p}]

\* fs::create_dir_all: creates the path and every missing ancestor.
CreateDirAll(f, p) == [f EXCEPT !.dirs = @ \cup Ancestors(p)]

\* File::create: fails when the parent directory is missing (or the path is a
\* directory); otherwise the file exists and is empty.
CanCreateFile(f, p) == Parent(p) \in f.dirs /\ p \notin f.dirs
PutFile(f, p, content) ==
  [f EXCEPT !.files = [q \in DOMAIN @ \cup {p} |-> IF q = p THEN content ELSE @[q]]]

\* fs::remove_file(..).ok().
RemoveFile(f, p) == [f EXCEPT !.files = [q \in DOMAIN @ \ {p} |-> @[q]]]

(***************************************************************************)
(* The environment of a run: the catalogs the servers serve, the process   *)
(* arguments, the settings file and the save directory as the run finds it.*)
(***************************************************************************)
Acq(type, href) == RawLink(Some(RelAcquisition), href, Some(type))

EntryDune ==
  [title |-> "Dune", id |-> <<"urn:uuid:", "a">>,
   links |-> Some(<<RawLink(Some(RelImage), Some(<<"/", "img", "/", "a">>), None),
                    Acq(EPUB, Some(<<"/", "dl", "/", "a.epub">>)),
                    Acq(PDF, Some(<<"/", "dl", "/", "a.pdf">>))>>)]
EntryDune2 ==
  [title |-> "Dune (2nd printing)", id |-> <<"urn:uuid:", "a">>,
   links |-> Some(<<Acq(EPUB, Some(<<"/", "dl", "/", "a2.epub">>)),
                    Acq(PDF, Some(<<"/", "dl", "/", "a2.pdf">>))>>)]
EntryEmma ==
  [title |-> "Emma", id |-> <<"urn:uuid:", "b">>,
   links |-> Some(<<Acq(PDF, Some(<<"/", "dl", "/", "b.pdf">>)),
                    Acq(EPUB, Some(<<"/", "dl", "/", "b.epub">>))>>)]
\* No acquisition link of a preferred type: a sample and a comic archive.
EntryZine ==
  [title |-> "Zine", id |-> <<"urn:uuid:", "c">>,
   links |-> Some(<<RawLink(Some(RelSample), Some(<<"/", "dl", "/", "c.epub">>), Some(EPUB)),
                    RawLink(Some(RelAcquisition), Some(<<"/", "dl", "/", "c">>), None),
                    Acq(CBZ, Some(<<"/", "dl", "/", "c.cbz">>))>>)]
\* No links at all and an id without the urn:uuid: prefix.
EntryBlog == [title |-> "Blog", id |-> <<"tag:", "blog">>, links |-> None]
\* A preferred acquisition link and an id without the prefix.
EntryNews ==
  [title |-> "News", id |-> <<"tag:", "news">>,
   links |-> Some(<<Acq(EPUB, Some(<<"/", "dl", "/", "news.epub">>))>>)]
\* A preview and an acquisition link of a MIME type outside the fixed table.
EntryPulp ==
  [title |-> "Pulp", id |-> <<"urn:uuid:", "e">>,
   links |-> Some(<<RawLink(Some(RelPreview), Some(<<"/", "dl", "/", "e.txt">>), Some(EPUB)),
                    Acq(MOBI, Some(<<"/", "dl", "/", "e.mobi">>))>>)]
\* The acquisition link carries no href attribute.
EntryGhost ==
  [title |-> "Ghost", id |-> <<"urn:uuid:", "d">>,
   links |-> Some(<<Acq(EPUB, None)>>)]

NextLink(href) == RawLink(Some(RelNext), href, None)
SelfLink == RawLink(Some(RelSelf), Some(<<"/", "opds">>), None)

Doc(entries, links) == [entries |-> entries, links |-> links]

Lib1Url == <<"http", "://", "lib1", "/", "opds">>
Lib2Url == <<"http", "://", "lib2", ":", "8080", "/", "opds">>
Page2 == <<"/", "opds", "?page=2">>
Page3 == <<"/", "opds", "?page=3">>

UrlOf(s) == Unwrap(UrlParse(s))

\* lib1, two pages, the next link a path on the same host.
SiteRelative ==
  (UrlOf(Lib1Url) :> Doc(<<EntryDune, EntryEmma>>, <<SelfLink, NextLink(Some(Page2))>>))
  @@ (UrlOf(<<"http", "://", "lib1">> \o Page2)
        :> Doc(<<EntryZine, EntryBlog, EntryNews>>, <<SelfLink>>))
\* lib2 on port 8080, a single page.
SiteSingle ==
  (UrlOf(Lib2Url) :> Doc(<<EntryEmma, EntryDune, EntryPulp>>, <<>>))
\* lib1, a single page with a duplicate id and a link without href.
SiteDuplicates ==
  (UrlOf(Lib1Url) :> Doc(<<EntryDune, EntryDune2, EntryGhost, EntryEmma>>, <<SelfLink>>))
\* lib2 on port 8080, three pages, the next links full URLs.
SiteAbsolute ==
  (UrlOf(Lib2Url)
     :> Doc(<<EntryEmma>>, <<NextLink(Some(<<"http", "://", "lib2", ":", "8080">> \o Page2))>>))
  @@ (UrlOf(<<"http", "://", "lib2", ":", "8080">> \o Page2)
        :> Doc(<<EntryDune>>, <<NextLink(Some(<<"http", "://", "lib2", ":", "8080">> \o Page3)),
                                SelfLink>>))
  @@ (UrlOf(<<"http", "://", "lib2", ":", "8080">> \o Page3) :> Doc(<<EntryNews>>, <<SelfLink>>))
\* lib2 on port 8080, two pages, the next link a path on the same host.
SitePortRelative ==
  (UrlOf(Lib2Url) :> Doc(<<EntryEmma>>, <<NextLink(Some(Page2))>>))
  @@ (UrlOf(<<"http", "://", "lib2", ":", "8080">> \o Page2) :> Doc(<<EntryDune>>, <<>>))
\* lib1, the next link has no href attribute.
SiteNextNoHref ==
  (UrlOf(Lib1Url) :> Doc(<<EntryDune>>, <<NextLink(None)>>))
\* lib1, the next link is a relative reference that does not start with '/'.
SiteNextBare ==
  (UrlOf(Lib1Url) :> Doc(<<EntryDune>>, <<NextLink(Some(<<"opds", "?page=2">>))>>))
\* lib1, the next link of the only page leads back to it.
SiteCycle ==
  (UrlOf(Lib1Url) :> Doc(<<EntryEmma>>, <<NextLink(Some(Lib1Url))>>))

Server(name, url, site) == [name |-> name, url |-> url, site |-> site]
Lib1(site) == Server(<<"lib1">>, Lib1Url, site)
Lib2(site) == Server(<<"lib2">>, Lib2Url, site)

Args(library, save, wifi, online) ==
  [library_path |-> library, save_path |-> save, wifi |-> wifi, online |-> online]

Media == << <<"media">> >>
MediaOpds == << <<"media">>, <<"opds">> >>

\* The scenarios: the servers in the order the settings map yields them, and
\* the four process arguments.
Scenarios ==
  << [servers |-> <<Lib1(SiteRelative), Lib2(SiteSingle)>>,
      args |-> Args(Media, MediaOpds, TRUE, TRUE)],
     [servers |-> <<Lib2(SiteAbsolute), Lib1(SiteDuplicates)>>,
      args |-> Args(<< <<"books">> >>, MediaOpds, FALSE, FALSE)],
     [servers |-> <<Lib2(SitePortRelative)>>,
      args |-> Args(Media, MediaOpds, TRUE, FALSE)],
     [servers |-> <<Lib1(SiteNextNoHref)>>, args |-> Args(Media, MediaOpds, TRUE, TRUE)],
     [servers |-> <<Lib1(SiteNextBare)>>, args |-> Args(Media, MediaOpds, TRUE, TRUE)],
     [servers |-> <<Lib1(SiteCycle)>>, args |-> Args(Media, MediaOpds, TRUE, TRUE)] >>

\* Settings: the organization table of the spec's example.
Organization == [e \in {<<"epub">>} |-> <<"Books">>]

SettingsSet ==
  [preferred_file_types : {<<PDF, EPUB>>, <<EPUB>>, <<MOBI, EPUB>>},
   use_server_name_directories : BOOLEAN,
   organize_by_file_type : BOOLEAN,
   organization : {Organization}]

\* A file's content: who wrote it (0: it was there before the first run) and
\* whether the body was written.
Content(by, state) == [by |-> by, state |-> state]

FilesIn(paths, content) == [p \in paths |-> content]

\* Dune as earlier syncs from lib1 left it, under every layout.
OldFiles ==
  { MediaOpds \o << <<"a", ".", "pdf">> >>,
    MediaOpds \o << <<"a", ".", "epub">> >>,
    MediaOpds \o << <<"Books">>, <<"a", ".", "epub">> >>,
    MediaOpds \o << <<"lib1">>, <<"a", ".", "pdf">> >>,
    MediaOpds \o << <<"lib1">>, <<"a", ".", "epub">> >>,
    MediaOpds \o << <<"lib1">>, <<"Books">>, <<"a", ".", "epub">> >> }

\* The save directory as a run may find it: not yet created, on a volume that
\* is not mounted, or holding the files of earlier syncs.
InitialFs ==
  { [dirs |-> Ancestors(Media), files |-> <<>>],
    [dirs |-> {<<>>}, files |-> <<>>],
    [dirs |-> UNION {Ancestors(Parent(p)) : p \in OldFiles},
     files |-> FilesIn(OldFiles, Content(0, "full"))] }

(***************************************************************************)
(* The state of a run.                                                     *)
(***************************************************************************)
VARIABLES
  scn,        \* the scenario: index into Scenarios
  settings,   \* the content of Settings.toml
  fs,         \* the file system
  pc,         \* where main stands
  sigterm,    \* the AtomicBool set by SIGTERM
  si,         \* the per-server loop: index of the current server
  feed,       \* the Feed accumulated for the current server
  fetches,    \* pagination requests of the current crawl
  ri,         \* the resolver: index of the next entry of feed.entries
  results,    \* Vec<EntryResult> of the current server
  is_empty,   \* results.is_empty(), taken before the download loop
  di,         \* the download loop: index of the current result
  events,     \* the events printed to the host (plato.rs), in order
  requests,   \* the HTTP requests sent, in order
  err,        \* the error the run died of, "none" otherwise
  diag,       \* whether opds_error.txt was written
  status,     \* the exit status, once pc = "exited"
  outcomes,   \* what became of results[1..di-1]: downloaded, failed, skipped
  sigAt,      \* where the run stood when SIGTERM arrived
  run,        \* the ordinal of this run over the save directory
  startFs,    \* the file system as this run found it
  prev,       \* how the run before ended
  stdin       \* the lines this run has read from standard input

vars == <<scn, settings, fs, pc, sigterm, si, feed, fetches, ri, results, is_empty,
          di, events, requests, err, diag, status, outcomes, sigAt, run, startFs,
          prev, stdin>>

env == <<scn, settings, run, startFs, prev, stdin>>
loop == <<si, feed, fetches, ri, results, is_empty, di, outcomes>>
sig == <<sigterm, sigAt>>

servers == Scenarios[scn].servers
args == Scenarios[scn].args
save_path == args.save_path
library_path == args.library_path
instance == servers[si]
instance_path == PathJoin(save_path, instance.name)

EmptyFeed == [entries |-> <<>>, links |-> <<>>]

\* plato::show_notification.
Notify(msg) == [type |-> "notify"] @@ msg
\* plato::set_wifi.
SetWifi(enable) == [type |-> "setWifi", enable |-> enable]
\* plato::add_document.
AddDocument(info) == [type |-> "addDocument", info |-> info]

EntryError(title, detail) ==
  Notify([kind |-> "entry_error", title |-> title, detail |-> detail])

NotYet == [pc |-> "never", requests |-> 0, di |-> 0, of |-> 0]

NoRun == [ok |-> FALSE, cancelled |-> FALSE, failed |-> FALSE]

Start(n, f) ==
  /\ pc = "args" /\ fs = f /\ sigterm = FALSE /\ si = 1 /\ feed = EmptyFeed
  /\ fetches = 0 /\ ri = 1 /\ results = <<>> /\ is_empty = TRUE /\ di = 1
  /\ events = <<>> /\ requests = <<>> /\ err = "none" /\ diag = FALSE
  /\ status = 0 /\ outcomes = <<>> /\ sigAt = NotYet /\ run = n /\ startFs = f
  /\ stdin = 0

Init ==
  /\ scn \in 1..Len(Scenarios)
  /\ settings \in SettingsSet
  /\ prev = NoRun
  /\ \E f \in InitialFs : Start(1, f)

\* An error leaves load_and_process_opds through `?`.
Fail(kind) == pc' = "main_err" /\ err' = kind /\ UNCHANGED <<diag, status>>

\* A panic (expect): the process dies with status 101; main's error branch
\* does not run.
Panic(kind) == pc' = "exited" /\ err' = kind /\ status' = 101 /\ UNCHANGED diag

Goto(l) == pc' = l /\ UNCHANGED <<err, diag, status>>

(***************************************************************************)
(* Start-up (main.rs 227-274).                                             *)
(***************************************************************************)
\* The four positional arguments: a missing or non-boolean one is an error.
ParseArgs ==
  /\ pc = "args"
  /\ \E ok \in BOOLEAN : IF ok THEN Goto("settings") ELSE Fail("missing argument")
  /\ UNCHANGED <<env, fs, sig, loop, events, requests>>

\* load_toml(SETTINGS_PATH).
LoadSettings ==
  /\ pc = "settings"
  /\ \E ok \in BOOLEAN : IF ok THEN Goto("network") ELSE Fail("can't load settings")
  /\ UNCHANGED <<env, fs, sig, loop, events, requests>>

\* A faulty AwaitNetwork: the host is asked for the network whatever the
\* wifi argument says.
AwaitNetworkAlwaysAsks ==
  /\ pc = "network"
  /\ IF args.online
     THEN Goto("savedir") /\ UNCHANGED <<events, stdin>>
     ELSE /\ events' = events \o <<Notify([kind |-> "establishing"]), SetWifi(TRUE)>>
          /\ \E ok \in BOOLEAN :
               IF ok THEN Goto("savedir") /\ stdin' = stdin + 1
               ELSE Fail("stdin") /\ UNCHANGED stdin
  /\ UNCHANGED <<scn, settings, run, startFs, prev, fs, sig, loop, requests>>

\* if !online { ... read_line }: the notification, the wifi request, and the
\* line read from standard input (or the error of the read).
AwaitNetwork ==
  /\ pc = "network"
  /\ IF args.online
     THEN Goto("savedir") /\ UNCHANGED <<events, stdin>>
     ELSE /\ events' = events \o
               (IF ~args.wifi
                THEN <<Notify([kind |-> "establishing"]), SetWifi(TRUE)>>
                ELSE <<Notify([kind |-> "waiting"])>>)
          /\ \E ok \in BOOLEAN :
               IF ok THEN Goto("savedir") /\ stdin' = stdin + 1
               ELSE Fail("stdin") /\ UNCHANGED stdin
  /\ UNCHANGED <<scn, settings, run, startFs, prev, fs, sig, loop, requests>>

\* if !save_path.exists() { fs::create_dir(&save_path)? }.
CreateSaveDir ==
  /\ pc = "savedir"
  /\ IF PathExists(fs, save_path)
     THEN Goto("client") /\ UNCHANGED fs
     ELSE IF CanCreateDir(fs, save_path)
          THEN Goto("client") /\ fs' = CreateDir(fs, save_path)
          ELSE Fail("create save dir") /\ UNCHANGED fs
  /\ UNCHANGED <<env, sig, loop, events, requests>>

\* Client::builder().build()? and signal_hook::flag::register(..)?.
BuildClient ==
  /\ pc = "client"
  /\ \E o \in {"ok", "client", "signal"} : IF o = "ok" THEN Goto("instdirs") ELSE Fail(o)
  /\ UNCHANGED <<env, fs, sig, loop, events, requests>>

RECURSIVE InstanceDirs(_, _)
\* The loop over settings.servers.keys(): the file system after it, or None
\* when a create_dir failed.
InstanceDirs(f, i) ==
  IF i > Len(servers) THEN Some(f)
  ELSE LET p == PathJoin(save_path, servers[i].name)
       IN IF PathExists(f, p) THEN InstanceDirs(f, i + 1)
          ELSE IF CanCreateDir(f, p) THEN InstanceDirs(CreateDir(f, p), i + 1)
          ELSE None

\* if settings.use_server_name_directories { create a directory per server }.
CreateInstanceDirs ==
  /\ pc = "instdirs"
  /\ IF settings.use_server_name_directories
     THEN LET r == InstanceDirs(fs, 1)
          IN IF r = None THEN Fail("create instance dir") /\ UNCHANGED fs
             ELSE Goto("srv_check") /\ fs' = Unwrap(r)
     ELSE Goto("srv_check") /\ UNCHANGED fs
  /\ UNCHANGED <<env, sig, loop, events, requests>>

(***************************************************************************)
(* The per-server loop: fetching the catalog (main.rs 276-319).            *)
(***************************************************************************)
Request(kind, url) == [kind |-> kind, server |-> instance.name, url |-> url]

\* The outcomes of a GET of a catalog page: the page is served and parses, the
\* request fails, or the body is no feed. A URL nobody serves only fails.
FetchOutcomes(url) ==
  IF url \in DOMAIN instance.site THEN {"ok", "send_error", "parse_error"}
  ELSE {"send_error"}

\* The return of load_and_process_opds with Ok(()): main exits with 0.
ReturnOk == pc' = "exited" /\ status' = 0 /\ UNCHANGED <<err, diag>>

\* Top of `for (name, instance) in &settings.servers`: the sigterm check.
ServerCheck ==
  /\ pc = "srv_check"
  /\ IF si > Len(servers) \/ sigterm THEN ReturnOk ELSE Goto("fetch")
  /\ UNCHANGED <<env, fs, sig, loop, events, requests>>

\* A faulty FetchCatalog: a failed fetch ends this server's turn only.
FetchCatalogPerServer ==
  /\ pc = "fetch"
  /\ LET url == UrlOf(instance.url)
     IN /\ requests' = Append(requests, Request("catalog", url))
        /\ \E o \in FetchOutcomes(url) :
             IF o = "ok"
             THEN /\ feed' = ParseFeed(instance.site[url])
                  /\ Goto("paginate")
             ELSE /\ pc' = "finish" /\ err' = o /\ UNCHANGED <<diag, status>>
                  /\ UNCHANGED feed
  /\ UNCHANGED <<env, fs, sig, si, fetches, ri, results, is_empty, di, outcomes, events>>

\* client.get(&instance.url)...send()?, response.text()?, from_str::<Feed>?.
FetchCatalog ==
  /\ pc = "fetch"
  /\ LET url == UrlOf(instance.url)
     IN /\ requests' = Append(requests, Request("catalog", url))
        /\ \E o \in FetchOutcomes(url) :
             IF o = "ok"
             THEN /\ feed' = ParseFeed(instance.site[url])
                  /\ Goto("paginate")
             ELSE Fail(o) /\ UNCHANGED feed
  /\ UNCHANGED <<env, fs, sig, si, fetches, ri, results, is_empty, di, outcomes, events>>

IsNext(link) == link.rel = Some(LinkTypeNext)

HasNext(f) == \E i \in 1..Len(f.links) : IsNext(f.links[i])

\* feed.links.iter().find(|link| link.rel == Some(LinkType::Next)).
FindNext(f) ==
  f.links[CHOOSE i \in 1..Len(f.links) :
            IsNext(f.links[i]) /\ \A j \in 1..(i - 1) : ~IsNext(f.links[j])]

\* feed.entries.extend(next_feed.entries); feed.links = next_feed.links.
MergeFeed(f, next_feed) ==
  [entries |-> f.entries \o next_feed.entries, links |-> next_feed.links]

\* One turn of the `while let Some(next_link)` loop.
Paginate ==
  /\ pc = "paginate" /\ HasNext(feed) /\ fetches < MaxPageFetches
  /\ LET next_link == FindNext(feed)
     IN IF next_link.href = None
        THEN Panic("Paginated link is empty") /\ UNCHANGED <<feed, fetches, requests>>
        ELSE LET parsed == PaginatedUrl(instance.url, Unwrap(next_link.href))
             IN IF parsed = None
                THEN Panic("Can't parse paginated url")
                     /\ UNCHANGED <<feed, fetches, requests>>
                ELSE LET url == Unwrap(parsed)
                     IN /\ requests' = Append(requests, Request("page", url))
                        /\ fetches' = fetches + 1
                        /\ \E o \in FetchOutcomes(url) :
                             IF o = "ok"
                             THEN /\ feed' = MergeFeed(feed, ParseFeed(instance.site[url]))
                                  /\ Goto("paginate")
                             ELSE Fail(o) /\ UNCHANGED feed
  /\ UNCHANGED <<env, fs, sig, si, ri, results, is_empty, di, outcomes, events>>

\* A faulty PaginationDone: on to the entries whatever the links say.
PaginationDoneEarly ==
  /\ pc = "paginate"
  /\ Goto("resolve")
  /\ UNCHANGED <<env, fs, sig, loop, events, requests>>

\* The `while let` finds no next link: on to the entries.
PaginationDone ==
  /\ pc = "paginate" /\ ~HasNext(feed)
  /\ Goto("resolve")
  /\ UNCHANGED <<env, fs, sig, loop, events, requests>>

(***************************************************************************)
(* Resolving the entries (main.rs 321-401).                                *)
(***************************************************************************)
EntryLinks(entry) == IF entry.links = None THEN <<>> ELSE Unwrap(entry.links)

IsAcquisitionOf(link, file_type) ==
  link.rel = Some(LinkTypeAcquisition) /\ link.file_type = Some(file_type)

\* entry.links...find(|link| rel == Acquisition && file_type == Some(file_type)).
FindLink(entry, file_type) ==
  LET ls == EntryLinks(entry)
      hits == {i \in 1..Len(ls) : IsAcquisitionOf(ls[i], file_type)}
  IN IF hits = {} THEN None
     ELSE Some(ls[CHOOSE i \in hits : \A j \in hits : i <= j])

RECURSIVE FindMapLink(_, _)
\* file_types.into_iter().find_map(..): the first preferred type with a link.
FindMapLink(entry, file_types) ==
  IF file_types = <<>> THEN None
  ELSE LET l == FindLink(entry, Head(file_types))
       IN IF l # None THEN l ELSE FindMapLink(entry, Tail(file_types))

\* A faulty SelectLink: the first acquisition link of any preferred type, in feed order.
SelectLinkFeedOrder(entry, file_types) ==
  LET ls == EntryLinks(entry)
      hits == {i \in 1..Len(ls) :
                 \E p \in 1..Len(file_types) : IsAcquisitionOf(ls[i], file_types[p])}
  IN IF hits = {} THEN None
     ELSE Some(ls[CHOOSE i \in hits : \A j \in hits : i <= j])

SelectLink(entry, file_types) == FindMapLink(entry, file_types)

\* A faulty StripUuid: an id without the prefix is taken as it stands.
StripUuidLax(id) ==
  IF Len(id) > 0 /\ Head(id) = "urn:uuid:" THEN Some(Tail(id)) ELSE Some(id)

\* entry.id.strip_prefix("urn:uuid:").
StripUuid(id) ==
  IF Len(id) > 0 /\ Head(id) = "urn:uuid:" THEN Some(Tail(id)) ELSE None

\* format!("{}.{}", uuid, file_extension.to_string()).
FileName(uuid, file_extension) == uuid \o <<".">> \o FileExtensionToString(file_extension)

\* A faulty BasePath: the server's directory when the flag is set.
BasePathPerServer ==
  IF settings.use_server_name_directories THEN instance_path ELSE save_path

\* The directory the settings' layout flags pick (main.rs 361-365).
BasePath == IF settings.use_server_name_directories THEN save_path ELSE instance_path

\* The directory by file type, when the organization table has the extension.
OrganizedDir(file_extension) ==
  LET extension == FileExtensionToString(file_extension)
  IN IF settings.organize_by_file_type /\ extension \in DOMAIN settings.organization
     THEN Some(PathJoin(BasePath, settings.organization[extension]))
     ELSE None

DocDir(file_extension) ==
  IF OrganizedDir(file_extension) = None THEN BasePath
  ELSE Unwrap(OrganizedDir(file_extension))

DocPath(uuid, file_extension) ==
  PathJoin(DocDir(file_extension), FileName(uuid, file_extension))

\* A faulty DocExists: the check looks for a directory at the path.
DocExistsAsDir(f, doc_path) == doc_path \in f.dirs

\* doc_path.exists(), at resolution and again before the download.
DocExists(f, doc_path) == PathExists(f, doc_path)

\* The closure of filter_map on one entry: the file system after it, the
\* notification it prints, and the EntryResult if it yields one.
Resolve(f, entry) ==
  LET link == SelectLink(entry, settings.preferred_file_types)
      uuid == StripUuid(entry.id)
      skip == [fs |-> f, note |-> <<>>, result |-> None]
  IN IF uuid = None THEN skip
     ELSE IF link = None
     THEN [skip EXCEPT !.note = <<EntryError(entry.title, "no acquisition link found")>>]
     ELSE LET l == Unwrap(link)
              file_extension == FileExtensionFrom(FileTypeFromStr(Unwrap(l.file_type)))
              organized == OrganizedDir(file_extension)
              f2 == IF organized # None /\ ~PathExists(f, Unwrap(organized))
                    THEN CreateDirAll(f, Unwrap(organized))
                    ELSE f
              doc_path == DocPath(Unwrap(uuid), file_extension)
          IN IF DocExists(f2, doc_path) THEN [skip EXCEPT !.fs = f2]
             ELSE [fs |-> f2, note |-> <<>>,
                   result |-> Some([link |-> l, file_extension |-> file_extension,
                                    entry |-> entry, save_path |-> doc_path])]

\* One entry through the filter_map.
ResolveEntry ==
  /\ pc = "resolve" /\ ri <= Len(feed.entries)
  /\ LET r == Resolve(fs, feed.entries[ri])
     IN /\ fs' = r.fs
        /\ events' = events \o r.note
        /\ results' = IF r.result = None THEN results ELSE Append(results, Unwrap(r.result))
  /\ ri' = ri + 1
  /\ Goto("resolve")
  /\ UNCHANGED <<env, sig, si, feed, fetches, is_empty, di, outcomes, requests>>

(***************************************************************************)
(* The notifications before the downloads (print_sync_notification).       *)
(***************************************************************************)
Extensions(rs) == {rs[i].file_extension : i \in 1..Len(rs)}

CountOf(rs, file_extension) ==
  Cardinality({i \in 1..Len(rs) : rs[i].file_extension = file_extension})

\* The orders in which a HashMap may yield the keys S.
Orders(S) ==
  {o \in [1..Cardinality(S) -> S] : \A i, j \in 1..Cardinality(S) : o[i] = o[j] => i = j}

\* A faulty SyncNotifications: one count notification per resolved entry.
SyncNotificationsPerEntry(name, rs, o) ==
  IF rs = <<>> THEN <<>>
  ELSE <<Notify([kind |-> "sync_total", count |-> Len(rs), server |-> name])>>
       \o [i \in 1..Len(rs) |->
             Notify([kind |-> "sync_count", count |-> CountOf(rs, rs[i].file_extension),
                     extension |-> FileExtensionToString(rs[i].file_extension)])]

\* The notifications print_sync_notification prints with the counts map
\* iterated in the order o.
SyncNotifications(name, rs, o) ==
  IF rs = <<>> THEN <<>>
  ELSE <<Notify([kind |-> "sync_total", count |-> Len(rs), server |-> name])>>
       \o [i \in 1..Len(o) |->
             Notify([kind |-> "sync_count", count |-> CountOf(rs, o[i]),
                     extension |-> FileExtensionToString(o[i])])]

\* collect(), print_sync_notification(name, &results), results.is_empty().
Summarize ==
  /\ pc = "resolve" /\ ri > Len(feed.entries)
  /\ \E o \in Orders(Extensions(results)) :
       events' = events \o SyncNotifications(instance.name, results, o)
  /\ is_empty' = (results = <<>>)
  /\ Goto("dl_check")
  /\ UNCHANGED <<env, fs, sig, si, feed, fetches, ri, results, di, outcomes, requests>>

(***************************************************************************)
(* The download loop (main.rs 406-490).                                    *)
(***************************************************************************)
\* Top of `for result in results`: the iterator's end, or the sigterm check.
DownloadCheck ==
  /\ pc = "dl_check"
  /\ IF di > Len(results) \/ sigterm THEN Goto("finish") ELSE Goto("dl_begin")
  /\ UNCHANGED <<env, fs, sig, loop, events, requests>>

NextResult(outcome) == di' = di + 1 /\ outcomes' = Append(outcomes, outcome)

\* The URL of the resource: the instance URL with its path set to the href.
ResourceUrl(href) == UrlSetPath(UrlOf(instance.url), href)

\* A faulty DownloadBegin: the destination is not looked at again before the
\* file is created.
DownloadBeginUnchecked ==
  /\ pc = "dl_begin"
  /\ LET result == results[di]
         doc_path == result.save_path
     IN IF ~CanCreateFile(fs, doc_path)
        THEN /\ Fail("create file")
             /\ UNCHANGED <<fs, requests, di, outcomes>>
        ELSE /\ fs' = PutFile(fs, doc_path, Content(run, "empty"))
             /\ IF result.link.href = None
                THEN /\ Fail("no href found for link")
                     /\ UNCHANGED <<requests, di, outcomes>>
                ELSE /\ requests' =
                          Append(requests,
                                 Request("download", ResourceUrl(Unwrap(result.link.href))))
                     /\ Goto("dl_end")
                     /\ UNCHANGED <<di, outcomes>>
  /\ UNCHANGED <<env, sig, si, feed, fetches, ri, results, is_empty, events>>

\* From the existence check to the request being sent (main.rs 411-426).
DownloadBegin ==
  /\ pc = "dl_begin"
  /\ LET result == results[di]
         doc_path == result.save_path
     IN IF DocExists(fs, doc_path)
        THEN /\ Goto("dl_check") /\ NextResult("skipped")
             /\ UNCHANGED <<fs, requests>>
        ELSE IF ~CanCreateFile(fs, doc_path)
        THEN /\ Fail("create file")
             /\ UNCHANGED <<fs, requests, di, outcomes>>
        ELSE /\ fs' = PutFile(fs, doc_path, Content(run, "empty"))
             /\ IF result.link.href = None
                THEN /\ Fail("no href found for link")
                     /\ UNCHANGED <<requests, di, outcomes>>
                ELSE /\ requests' =
                          Append(requests,
                                 Request("download", ResourceUrl(Unwrap(result.link.href))))
                     /\ Goto("dl_end")
                     /\ UNCHANGED <<di, outcomes>>
  /\ UNCHANGED <<env, sig, si, feed, fetches, ri, results, is_empty, events>>

Contains(s, token) == \E i \in 1..Len(s) : s[i] = token

\* The record handed to plato::add_document (main.rs 438-488).
DocumentInfo(result, path) ==
  [title |-> result.entry.title,
   identifier |-> result.entry.id,
   file |-> [path |-> path, kind |-> FileExtensionToString(result.file_extension)],
   finished |-> Contains(instance.url, "readbooks")]

\* A faulty Downloaded: the document is registered whatever the response.
DownloadedAndRegistered(result, ok) ==
  LET doc_path == result.save_path
      rel == StripPathPrefix(doc_path, library_path)
      note == IF rel = None THEN <<>> ELSE <<AddDocument(DocumentInfo(result, Unwrap(rel)))>>
  IN IF ~ok
     THEN [fs |-> RemoveFile(fs, doc_path),
           note |-> <<EntryError(result.entry.title, "request failed")>> \o note,
           outcome |-> "failed"]
     ELSE [fs |-> PutFile(fs, doc_path, Content(run, "full")),
           note |-> note,
           outcome |-> "downloaded"]

\* What the download loop does with the response of the GET.
Downloaded(result, ok) ==
  LET doc_path == result.save_path
      rel == StripPathPrefix(doc_path, library_path)
  IN IF ~ok
     THEN [fs |-> RemoveFile(fs, doc_path),
           note |-> <<EntryError(result.entry.title, "request failed")>>,
           outcome |-> "failed"]
     ELSE [fs |-> PutFile(fs, doc_path, Content(run, "full")),
           note |-> IF rel = None THEN <<>>
                    ELSE <<AddDocument(DocumentInfo(result, Unwrap(rel)))>>,
           outcome |-> "downloaded"]

\* send().and_then(copy_to) returns (main.rs 427-489).
DownloadEnd ==
  /\ pc = "dl_end"
  /\ \E ok \in BOOLEAN :
       LET d == Downloaded(results[di], ok)
       IN /\ fs' = d.fs
          /\ events' = events \o d.note
          /\ NextResult(d.outcome)
  /\ Goto("dl_check")
  /\ UNCHANGED <<env, sig, si, feed, fetches, ri, results, is_empty, requests>>

\* if !is_empty { "Finished syncing" }, and on to the next server: the locals of
\* this turn of the loop are dropped.
FinishServer ==
  /\ pc = "finish"
  /\ events' = IF is_empty THEN events
               ELSE Append(events, Notify([kind |-> "finished", server |-> instance.name]))
  /\ si' = si + 1
  /\ feed' = EmptyFeed /\ fetches' = 0 /\ ri' = 1 /\ results' = <<>>
  /\ is_empty' = TRUE /\ di' = 1 /\ outcomes' = <<>>
  /\ Goto("srv_check")
  /\ UNCHANGED <<env, fs, sig, requests>>

(***************************************************************************)
(* main's error branch, and SIGTERM.                                       *)
(***************************************************************************)
\* if let Err(err) = load_and_process_opds() { notify; write; return Err }.
MainError ==
  /\ pc = "main_err"
  /\ events' = Append(events, Notify([kind |-> "fatal", detail |-> err]))
  /\ diag' = TRUE
  /\ status' = 1
  /\ pc' = "exited"
  /\ UNCHANGED <<env, fs, sig, loop, requests, err>>

\* Where the flag is registered and load_and_process_opds still runs.
Registered ==
  pc \in {"instdirs", "srv_check", "fetch", "paginate", "resolve", "dl_check",
          "dl_begin", "dl_end", "finish"}

\* SIGTERM arrives: signal_hook sets the flag.
Sigterm ==
  /\ Registered /\ ~sigterm
  /\ sigterm' = TRUE
  /\ sigAt' = [pc |-> pc, requests |-> Len(requests), di |-> di, of |-> Len(results)]
  /\ UNCHANGED <<env, fs, pc, loop, events, requests, err, diag, status>>

Next ==
  \/ ParseArgs \/ LoadSettings \/ AwaitNetwork \/ CreateSaveDir \/ BuildClient
  \/ CreateInstanceDirs \/ ServerCheck \/ FetchCatalog \/ Paginate \/ PaginationDone
  \/ ResolveEntry \/ Summarize \/ DownloadCheck \/ DownloadBegin \/ DownloadEnd
  \/ FinishServer \/ MainError \/ Sigterm

Spec == Init /\ [][Next]_vars

(***************************************************************************)
(* Runs in a row: the host starts the program again over the save          *)
(* directory the run before left, against the same catalogs and settings.  *)
(***************************************************************************)
FailedDownloads == {i \in 1..Len(events) : events[i].type = "notify"
                                           /\ events[i].kind = "entry_error"
                                           /\ events[i].detail = "request failed"}

\* How this run ended: with success, after a SIGTERM, with a failed download.
Ended == [ok |-> status = 0, cancelled |-> sigterm, failed |-> FailedDownloads # {}]

Restart ==
  /\ pc = "exited" /\ run < MaxRuns
  /\ prev' = Ended
  /\ pc' = "args" /\ sigterm' = FALSE /\ sigAt' = NotYet /\ si' = 1
  /\ feed' = EmptyFeed /\ fetches' = 0 /\ ri' = 1 /\ results' = <<>>
  /\ is_empty' = TRUE /\ di' = 1 /\ events' = <<>> /\ requests' = <<>>
  /\ err' = "none" /\ diag' = FALSE /\ status' = 0 /\ outcomes' = <<>>
  /\ run' = run + 1 /\ startFs' = fs /\ stdin' = 0
  /\ UNCHANGED <<scn, settings, fs>>

NextTwice == Next \/ Restart

SpecTwice == Init /\ [][NextTwice]_vars


(***************************************************************************)
(* Properties.                                                             *)
(***************************************************************************)
Emitted(e) == \E k \in 1..Len(events) : events[k] = e

InBatch == pc \in {"dl_check", "dl_begin", "dl_end"}

\* C1: a failed download leaves no file at the entry's destination, is
\* notified with the entry's title, and does not keep the later entries of
\* the batch from being processed, unless SIGTERM arrived.
C1_FailedDownloadIsIsolated ==
  /\ \A i \in 1..Len(outcomes) :
       outcomes[i] = "failed" => Emitted(EntryError(results[i].entry.title, "request failed"))
  /\ (pc = "dl_check" /\ di > 1 /\ outcomes[di - 1] = "failed")
       => ~PathExists(fs, results[di - 1].save_path)
  /\ (pc \in {"finish", "main_err", "exited"} /\ ~sigterm
        /\ \E i \in 1..Len(outcomes) : outcomes[i] = "failed")
       => Len(outcomes) = Len(results)

\* C3: when SIGTERM arrives in the download loop with entries of the batch
\* left, only the entry in hand may still send its request, and the run ends
\* with success.
C3_CancellationMidBatch ==
  (sigterm /\ sigAt.pc \in {"dl_check", "dl_begin", "dl_end"} /\ sigAt.di <= sigAt.of)
    => /\ Len(requests) <= sigAt.requests + (IF sigAt.pc = "dl_begin" THEN 1 ELSE 0)
       /\ pc # "main_err"
       /\ pc = "exited" => status = 0 /\ err = "none"

\* The file system keeps what it held: every file is still there, unchanged.
Keeps(f, g) == \A p \in DOMAIN f.files : p \in DOMAIN g.files /\ g.files[p] = f.files[p]

Downloads == {i \in 1..Len(requests) : requests[i].kind = "download"}

\* The run before went through every server to its end.
PrevRanToEnd == run >= 2 /\ prev.ok /\ ~prev.cancelled

\* C2 (as stated): a run over the save directory that a run to the end left
\* sends no download request.
C2_SecondRunDownloadsNothing == PrevRanToEnd => Downloads = {}

\* C2 (amended): a run over the save directory that a run to the end with no
\* failed download left sends no download request.
C2_RunAfterCleanRunDownloadsNothing == (PrevRanToEnd /\ ~prev.failed) => Downloads = {}

\* A second run has ended with success after a clean first run that downloaded
\* files, and it fetched the catalogs again.
C2_Witness ==
  /\ run = 2 /\ PrevRanToEnd /\ ~prev.failed /\ pc = "exited" /\ status = 0
  /\ \E p \in DOMAIN fs.files : fs.files[p] = Content(1, "full")
  /\ Len(requests) >= 2

\* C4: every file the run found is still there with its content in every
\* later state, and the step that reaches an entry in the download loop
\* changes no file that exists when it is taken.
C4_OnlyAddsMissingFiles ==
  /\ [](Keeps(startFs, fs))
  /\ [][pc = "dl_begin" => Keeps(fs, fs')]_vars

\* A run that found files of an earlier run has ended after writing a file of
\* its own.
C4_Witness ==
  /\ run = 2 /\ pc = "exited"
  /\ \E p \in DOMAIN startFs.files : startFs.files[p].by = 1
  /\ \E p \in DOMAIN fs.files : fs.files[p] = Content(2, "full")

Range(q) == {q[i] : i \in 1..Len(q)}

\* C5: every EntryResult holds an acquisition link of its entry whose MIME
\* type is preferred, its entry's id starts with urn:uuid:, and nothing was at
\* its save_path when the resolver yielded it.
C5_ResolverInvariant ==
  /\ [](\A i \in 1..Len(results) :
          LET r == results[i]
          IN /\ r.link.rel = Some(LinkTypeAcquisition)
             /\ \E t \in Range(settings.preferred_file_types) : r.link.file_type = Some(t)
             /\ r.link \in Range(EntryLinks(r.entry))
             /\ Len(r.entry.id) > 0 /\ Head(r.entry.id) = "urn:uuid:")
  /\ [][Len(results') > Len(results)
          => /\ ~PathExists(fs, Last(results').save_path)
             /\ Last(results').entry = feed.entries[ri]]_vars

\* The resolver went through a feed, kept some entries and dropped others.
C5_Witness ==
  pc = "dl_check" /\ Len(results) >= 1 /\ Len(results) < Len(feed.entries)

\* The position of the first preferred type the entry has an acquisition link
\* of, 0 when there is none.
BestType(entry, file_types) ==
  LET have == {p \in 1..Len(file_types) :
                 \E l \in Range(EntryLinks(entry)) : IsAcquisitionOf(l, file_types[p])}
  IN IF have = {} THEN 0 ELSE CHOOSE p \in have : \A q \in have : p <= q

\* C6: the link selected for an entry is an acquisition link of the earliest
\* preferred type the entry has one of, and the first such link of the entry;
\* no link is selected when the entry has none of a preferred type.
C6_SelectionFollowsPreferenceOrder ==
  \A n \in 1..Len(feed.entries) :
    LET entry == feed.entries[n]
        types == settings.preferred_file_types
        sel == SelectLink(entry, types)
        best == BestType(entry, types)
        ls == EntryLinks(entry)
    IN IF best = 0 THEN sel = None
       ELSE \E k \in 1..Len(ls) :
              /\ sel = Some(ls[k])
              /\ IsAcquisitionOf(ls[k], types[best])
              /\ \A j \in 1..(k - 1) : ~IsAcquisitionOf(ls[j], types[best])

\* An EntryResult whose link stands in its entry behind an acquisition link of
\* a less preferred type.
C6_Witness ==
  \E i \in 1..Len(results) :
    LET ls == EntryLinks(results[i].entry)
        types == settings.preferred_file_types
    IN \E k \in 1..Len(ls), j \in 1..Len(ls), p \in 1..Len(types) :
         /\ j < k /\ ls[k] = results[i].link
         /\ p > BestType(results[i].entry, types) /\ IsAcquisitionOf(ls[j], types[p])

\* What a link of a page served at `base` points to by the rules of URL
\* references: a path on the same scheme, host and port, or a full URL.
LinkTarget(base, href) ==
  IF Len(href) > 0 /\ Head(href) = "/" THEN Some([base EXCEPT !.path = href])
  ELSE UrlParse(href)

RECURSIVE PagesFrom(_, _, _)
\* The URLs of the pages of a site from `url` on, following each page's next
\* link, at most n of them.
PagesFrom(site, url, n) ==
  IF n = 0 \/ url \notin DOMAIN site THEN <<>>
  ELSE LET f == ParseFeed(site[url])
       IN IF ~HasNext(f) \/ FindNext(f).href = None THEN <<url>>
          ELSE LET t == LinkTarget(url, Unwrap(FindNext(f).href))
               IN IF t = None THEN <<url>>
                  ELSE <<url>> \o PagesFrom(site, Unwrap(t), n - 1)

Pages(server) ==
  PagesFrom(server.site, UrlOf(server.url), Cardinality(DOMAIN server.site) + 1)

\* A catalog of k pages: each page but the last carries a next link to the
\* following page, the last carries none.
IsChain(server) ==
  LET us == Pages(server)
  IN /\ Len(us) >= 1
     /\ \A i, j \in 1..Len(us) : us[i] = us[j] => i = j
     /\ ~HasNext(ParseFeed(server.site[Last(us)]))

RECURSIVE ConcatEntries(_, _)
ConcatEntries(site, us) ==
  IF us = <<>> THEN <<>>
  ELSE ParseFeed(site[Head(us)]).entries \o ConcatEntries(site, Tail(us))

\* The catalog and pagination requests sent to the current server.
CrawlRequests ==
  SelectSeq(requests, LAMBDA r : r.server = instance.name /\ r.kind \in {"catalog", "page"})

\* C7: for a catalog that is a chain of k pages the fetcher requests the k
\* pages in order and nothing else, and the Feed it returns holds the pages'
\* entries in page order and the last page's links.
C7_PaginationAccumulates ==
  (si <= Len(servers) /\ IsChain(instance)) =>
    LET us == Pages(instance)
        reqs == CrawlRequests
    IN /\ Len(reqs) <= Len(us)
       /\ \A i \in 1..Len(reqs) : reqs[i].url = us[i]
       /\ pc \in {"resolve", "dl_check", "dl_begin", "dl_end", "finish"} =>
            /\ Len(reqs) = Len(us)
            /\ feed.entries = ConcatEntries(instance.site, us)
            /\ feed.links = ParseFeed(instance.site[Last(us)]).links

NoPreferredLink(entry) ==
  \A l \in Range(EntryLinks(entry)), t \in Range(settings.preferred_file_types) :
    ~IsAcquisitionOf(l, t)

\* C8: every entry the resolver has passed that has no acquisition link of a
\* preferred type is left out of the results and was notified with its title
\* and "no acquisition link found".
C8_SelectionMissReported ==
  pc \in {"resolve", "dl_check", "dl_begin", "dl_end", "finish"} =>
    \A n \in 1..(ri - 1) :
      NoPreferredLink(feed.entries[n]) =>
        /\ \A i \in 1..Len(results) : results[i].entry # feed.entries[n]
        /\ Emitted(EntryError(feed.entries[n].title, "no acquisition link found"))

\* C9: a run that ended on a fatal error ended with a non-zero status, after
\* writing the diagnostic file and with the error notification as its last
\* event.
C9_FatalErrorsSurfaced ==
  (pc = "exited" /\ err # "none") =>
    /\ status # 0
    /\ diag
    /\ events # <<>> /\ Last(events) = Notify([kind |-> "fatal", detail |-> err])

FetchFailed == err \in {"send_error", "parse_error"}

RequestsOf(name) == {i \in 1..Len(requests) : requests[i].server = name}

\* C10: once a catalog or pagination request of a server has failed, the run
\* is on its way out as an error: no entry of that server is resolved, no
\* download of it and no request to a later server is sent, no further
\* request at all, and the file system stays as it is.
C10_FetchFailureAbortsRun ==
  /\ [](FetchFailed =>
          /\ pc \in {"main_err", "exited"}
          /\ pc = "exited" =>
               /\ status # 0
               /\ Last(events) = Notify([kind |-> "fatal", detail |-> err])
          /\ results = <<>>
          /\ \A i \in RequestsOf(instance.name) : requests[i].kind # "download"
          /\ \A k \in (si + 1)..Len(servers) : RequestsOf(servers[k].name) = {})
  /\ [][FetchFailed' => fs' = fs]_vars
  /\ [][FetchFailed => requests' = requests]_vars

\* The catalog of the second server failed after the first server's files were
\* downloaded, and the run has ended.
C10_Witness ==
  /\ FetchFailed /\ pc = "exited" /\ si = 2
  /\ \E p \in DOMAIN fs.files : fs.files[p] = Content(run, "full")

\* The destination the path policy gives a resolved entry of the current server.
PolicyPath(r) ==
  LET extension == FileExtensionToString(r.file_extension)
      base == IF settings.use_server_name_directories THEN save_path
              ELSE Append(save_path, instance.name)
      dir == IF settings.organize_by_file_type /\ extension \in DOMAIN settings.organization
             THEN Append(base, settings.organization[extension])
             ELSE base
  IN PathJoin(dir, Tail(r.entry.id) \o <<".">> \o extension)

Finished(name) == Notify([kind |-> "finished", server |-> name])

Count(q, e) == Cardinality({i \in 1..Len(q) : q[i] = e})

\* Every resolved entry of the current server was downloaded, failed with
\* cleanup or was skipped.
BatchCompleted == results # <<>> /\ Len(outcomes) = Len(results)

\* C12: a "finished syncing" notification for a server is emitted only at the
\* end of that server's turn, only when its resolved set is non-empty and its
\* download batch ran to completion, and at most once; and it is emitted when
\* such a turn ends.
C12_FinishedIffBatchCompleted ==
  /\ [][\A k \in 1..Len(servers) :
          Count(events', Finished(servers[k].name)) > Count(events, Finished(servers[k].name))
            => /\ pc = "finish" /\ k = si
               /\ BatchCompleted
               /\ Count(events, Finished(servers[k].name)) = 0]_vars
  /\ [][(pc = "finish" /\ pc' # "finish" /\ BatchCompleted)
          => Count(events', Finished(instance.name)) = 1]_vars

AddDocuments(q) == SelectSeq(q, LAMBDA e : e.type = "addDocument")

InsideLibrary(p) == IsPrefix(library_path, p)

\* The current result's download has just succeeded.
DownloadSucceeds == pc = "dl_end" /\ outcomes' = Append(outcomes, "downloaded")

\* C13: an addDocument event is emitted exactly when a download of this run
\* succeeds and the destination lies inside the library root: one event, for
\* the entry just downloaded, with the file written in full; no other step
\* (failed download, skip, cancellation, resolution) emits one, and no file is
\* registered twice.
C13_RegistrationOnlyForSuccesses ==
  /\ [][AddDocuments(events') # AddDocuments(events)
          => /\ DownloadSucceeds
             /\ InsideLibrary(results[di].save_path)
             /\ fs'.files[results[di].save_path] = Content(run, "full")
             /\ \E e \in Range(events') :
                  /\ AddDocuments(events') = Append(AddDocuments(events), e)
                  /\ e.info.title = results[di].entry.title
                  /\ library_path \o e.info.file.path = results[di].save_path]_vars
  /\ [][(DownloadSucceeds /\ InsideLibrary(results[di].save_path))
          => Len(AddDocuments(events')) = Len(AddDocuments(events)) + 1]_vars
  /\ [](\A i, j \in 1..Len(AddDocuments(events)) :
          AddDocuments(events)[i].info.file.path = AddDocuments(events)[j].info.file.path
            => i = j)

\* A download failed and the next one succeeded and was the only one
\* registered.
C13_Witness ==
  /\ Len(AddDocuments(events)) = 1
  /\ outcomes = <<"failed", "downloaded">>

\* Relation strings: the fixed table and strings outside it.
RelTable ==
  {RelAcquisition, RelImage, RelThumbnail, RelSample, RelPreview, RelOpenAccess,
   RelBorrow, RelBuy, RelSubscribe, RelNext}
RelStrings == RelTable \cup {RelSelf, "related", "NEXT", "http://opds-spec.org/acquisition/", ""}

\* MIME-type strings: the fixed table and strings outside it.
MimeTable == {EPUB, CBZ, PDF}
MimeStrings ==
  MimeTable \cup {MOBI, <<"text", "/", "html">>, <<"application", "/", "PDF">>, <<"epub">>, <<>>}

LinkTypes ==
  {"Acquisition", "Cover", "Thumbnail", "Sample", "OpenAccess", "Borrow", "Buy",
   "Subscribe", "Next", "Other"}
FileTypes == {"Epub", "Cbz", "Pdf", "Other"}

\* C14: the classifiers return a variant for every string; a string outside
\* the fixed table comes back as Other with the string unchanged, for MIME
\* types at the FileType and at the FileExtension layer (whose text is then
\* the string itself); the preview and the sample relation are both Sample;
\* and the resolved entries of a run carry the extension their link's MIME
\* type classifies to.
C14_ClassificationTotal ==
  /\ \A s \in RelStrings :
       /\ LinkTypeFromStr(s).tag \in LinkTypes
       /\ s \notin RelTable <=> LinkTypeFromStr(s) = [tag |-> "Other", raw |-> s]
  /\ LinkTypeFromStr(RelPreview) = [tag |-> "Sample", raw |-> ""]
  /\ LinkTypeFromStr(RelSample) = [tag |-> "Sample", raw |-> ""]
  /\ \A m \in MimeStrings :
       /\ FileTypeFromStr(m).tag \in FileTypes
       /\ FileExtensionFrom(FileTypeFromStr(m)).tag = FileTypeFromStr(m).tag
       /\ m \notin MimeTable <=> FileTypeFromStr(m) = [tag |-> "Other", raw |-> m]
       /\ m \notin MimeTable =>
            /\ FileExtensionFrom(FileTypeFromStr(m)) = [tag |-> "Other", raw |-> m]
            /\ FileExtensionToString(FileExtensionFrom(FileTypeFromStr(m))) = m
  /\ \A i \in 1..Len(results) :
       LET m == Unwrap(results[i].link.file_type)
       IN m \notin MimeTable => results[i].file_extension = [tag |-> "Other", raw |-> m]
  /\ \A i \in 1..Len(feed.entries) :
       \A l \in Range(EntryLinks(feed.entries[i])) :
         l.rel # None => Unwrap(l.rel).tag \in LinkTypes

\* An entry with a preview link is resolved through its link of a MIME type
\* outside the table, next to an entry of a type inside it.
C14_Witness ==
  \E i, j \in 1..Len(results) :
    /\ results[i].link.file_type = Some(MOBI)
    /\ results[i].file_extension = [tag |-> "Other", raw |-> MOBI]
    /\ \E l \in Range(EntryLinks(results[i].entry)) :
         l.rel = Some([tag |-> "Sample", raw |-> ""])
    /\ results[j].file_extension = [tag |-> "Epub", raw |-> <<>>]

\* The place of a request's server in the settings' order.
ServerOf(r) == CHOOSE k \in 1..Len(servers) : servers[k].name = r.server

\* C15: the requests of one server all come before the first request of the
\* next; a server's requests are its catalog request, then its pagination
\* requests, then its downloads; no entry is resolved while the feed still
\* carries a next link; the entries are resolved one by one in feed order,
\* all of them before the download loop starts; and the downloads are
\* requested for the resolved entries in resolution order.
C15_SequentialPhases ==
  /\ [](\A i, j \in 1..Len(requests) :
          i < j => /\ ServerOf(requests[i]) <= ServerOf(requests[j])
                   /\ ServerOf(requests[i]) = ServerOf(requests[j])
                        => /\ requests[j].kind # "catalog"
                           /\ requests[i].kind = "download" => requests[j].kind = "download")
  /\ []((ri > 1 \/ results # <<>>) => ~HasNext(feed))
  /\ []((pc \in {"dl_check", "dl_begin", "dl_end"} \/ outcomes # <<>>)
          => ri = Len(feed.entries) + 1)
  /\ [][ri' # ri =>
          \/ ri' = 1 /\ pc = "finish"
          \/ /\ ri' = ri + 1 /\ feed' = feed
             /\ \/ results' = results
                \/ /\ Len(results') = Len(results) + 1
                   /\ SubSeq(results', 1, Len(results)) = results
                   /\ Last(results').entry = feed.entries[ri]]_vars
  /\ [][results' # results => ri' # ri]_vars
  /\ [][requests' # requests =>
          /\ Len(requests') = Len(requests) + 1
          /\ SubSeq(requests', 1, Len(requests)) = requests
          /\ Last(requests').server = instance.name
          /\ Last(requests').kind = "download" =>
               /\ Len(outcomes) = di - 1 /\ di' = di /\ results' = results
               /\ Some(Last(requests').url.path) = results[di].link.href]_vars
  /\ [][di' # di => (di' = di + 1 /\ Len(outcomes') = di) \/ (di' = 1 /\ pc = "finish")]_vars

\* Pages and downloads of the first server, then the catalog and a download
\* of the second.
C15_Witness ==
  \E i, j, k, l \in 1..Len(requests) :
    /\ i < j /\ j < k /\ k < l
    /\ requests[i].kind = "page" /\ requests[j].kind = "download"
    /\ requests[j].server = servers[1].name
    /\ requests[k].kind = "catalog" /\ requests[l].kind = "download"
    /\ requests[l].server = servers[2].name

IsSummary(e) == e.type = "notify" /\ e.kind \in {"sync_total", "sync_count"}

Summaries(q) == SelectSeq(q, IsSummary)

RECURSIVE SumOfCounts(_)
SumOfCounts(q) == IF q = <<>> THEN 0 ELSE Head(q).count + SumOfCounts(Tail(q))

\* The extensions of the resolved set, as text.
ResolvedExtensions ==
  {FileExtensionToString(results[i].file_extension) : i \in 1..Len(results)}

\* C16: summary notifications are emitted only in the step between the
\* resolution of a server's last entry and its download loop, before any
\* download of that server. For a non-empty resolved set of size N they are
\* the aggregate notification carrying N and the server's name, followed by
\* exactly one notification per distinct extension of the set, each carrying
\* the number of resolved entries of that extension, the counts summing to N;
\* for an empty resolved set the step emits nothing.
C16_SummaryNotifications ==
  /\ [][Summaries(events') # Summaries(events) =>
          /\ pc = "resolve" /\ pc' = "dl_check" /\ ri = Len(feed.entries) + 1
          /\ results # <<>>]_vars
  /\ [][(pc = "resolve" /\ pc' = "dl_check") =>
          /\ outcomes = <<>> /\ di = 1
          /\ \A i \in 1..Len(requests) :
               requests[i].server = instance.name => requests[i].kind # "download"
          /\ LET new == SubSeqFrom(events', Len(events) + 1)
             IN
               /\ Len(new) = IF results = <<>> THEN 0
                             ELSE 1 + Cardinality(ResolvedExtensions)
               /\ events' = events \o new
               /\ results # <<>> =>
                    /\ new[1] = Notify([kind |-> "sync_total", count |-> Len(results),
                                        server |-> instance.name])
                    /\ \A i \in 2..Len(new) : new[i].kind = "sync_count"
                    /\ \A x \in ResolvedExtensions :
                         \E i \in 2..Len(new) :
                           /\ new[i].extension = x
                           /\ new[i].count =
                                Cardinality({n \in 1..Len(results) :
                                   FileExtensionToString(results[n].file_extension) = x})
                    /\ SumOfCounts(Tail(new)) = Len(results)]_vars

\* Three entries of two extensions: the aggregate notification carries 3, the
\* two that follow carry 2 and 1.
C16_Witness ==
  \E i \in 1..Len(events) :
    /\ i + 2 <= Len(events)
    /\ events[i] = Notify([kind |-> "sync_total", count |-> 3, server |-> <<"lib2">>])
    /\ IsSummary(events[i + 1]) /\ IsSummary(events[i + 2])
    /\ {events[i + 1].count, events[i + 2].count} = {1, 2}
    /\ pc = "dl_end"

\* The run has announced that it waits for the network.
Negotiated ==
  \E i \in 1..Len(events) :
    events[i] \in {Notify([kind |-> "establishing"]), Notify([kind |-> "waiting"])}

WifiRequests == SelectSeq(events, LAMBDA e : e.type = "setWifi")

\* C17: with the online argument false, no request is sent before one line
\* was read from standard input, and the run's wifi requests are one
\* setWifi(true) when the wifi argument is false too and none when it is
\* true; with the online argument true there is no wifi request and standard
\* input is not read.
C17_NetworkNegotiation ==
  /\ ~args.online =>
       /\ requests # <<>> => stdin = 1
       /\ pc \in {"savedir", "client", "instdirs", "srv_check", "fetch"} => stdin = 1
       /\ stdin \in {0, 1} /\ (stdin = 1 => Negotiated)
       /\ WifiRequests = IF Negotiated /\ ~args.wifi THEN <<SetWifi(TRUE)>> ELSE <<>>
  /\ args.online => stdin = 0 /\ WifiRequests = <<>> /\ ~Negotiated

\* The host was asked for the network, the line was read and the first
\* catalog was requested.
C17_Witness ==
  /\ ~args.online /\ ~args.wifi
  /\ stdin = 1 /\ WifiRequests = <<SetWifi(TRUE)>>
  /\ requests # <<>> /\ requests[1].kind = "catalog"

\* The files this run created.
CreatedFiles == {p \in DOMAIN fs.files : fs.files[p].by = run}

\* C18: when a run has ended, with success, after a cancellation or on a
\* fatal error, every file it created holds the body of a download that
\* succeeded.
C18_NoLeftoverPartialFile ==
  pc = "exited" => \A p \in CreatedFiles : fs.files[p].state = "full"

\* C19: whenever the download loop is about to create the file of a resolved
\* entry, the parent directory of the destination exists, and no run dies of
\* a failed file creation.
C19_DestinationDirectoryExists ==
  /\ (pc = "dl_begin" /\ ~PathExists(fs, results[di].save_path))
       => Parent(results[di].save_path) \in fs.dirs
  /\ err # "create file"

\* C20: while the pages of the current server's catalog are served and
\* parse, the crawl requests no URL twice, so it sends no more requests than
\* the catalog has pages and then stops.
C20_PaginationTerminates ==
  (si <= Len(servers) /\ ~FetchFailed) =>
    /\ \A i, j \in 1..Len(CrawlRequests) :
         CrawlRequests[i].url = CrawlRequests[j].url => i = j
    /\ Len(CrawlRequests) <= Cardinality(DOMAIN instance.site)

\* The files this run has downloaded in full.
FullFiles(f) == {p \in DOMAIN f.files : f.files[p] = Content(run, "full")}

\* C21: within a run a destination is downloaded at most once: a download
\* succeeds only into the file this run created empty for it, and a file
\* downloaded in full is never touched again; a resolved entry whose
\* destination exists when the loop takes it up is skipped by a step that sends no
\* request, prints no event and leaves the file system alone; so of the
\* resolved entries of a batch that share a destination, those after a
\* successful download are skipped.
C21_OneDownloadPerDestination ==
  /\ [][DownloadSucceeds =>
          /\ fs.files[results[di].save_path] = Content(run, "empty")
          /\ FullFiles(fs') = FullFiles(fs) \cup {results[di].save_path}]_vars
  /\ [][~DownloadSucceeds => FullFiles(fs') = FullFiles(fs)]_vars
  /\ [][(pc = "dl_begin" /\ pc' # pc /\ PathExists(fs, results[di].save_path)) =>
          /\ outcomes' = Append(outcomes, "skipped") /\ pc' = "dl_check"
          /\ events' = events /\ requests' = requests /\ fs' = fs]_vars
  /\ [](\A i, j \in 1..Len(outcomes) :
          (i < j /\ results[i].save_path = results[j].save_path
             /\ outcomes[i] = "downloaded") => outcomes[j] = "skipped")

\* Two entries of one feed share an id: both were resolved to the same
\* destination, the first was downloaded and the second skipped.
C21_Witness ==
  /\ Len(outcomes) >= 2 /\ outcomes[1] = "downloaded" /\ outcomes[2] = "skipped"
  /\ results[1].save_path = results[2].save_path
  /\ results[1].entry # results[2].entry
  /\ results[1].save_path \in FullFiles(fs)

=============================================================================
